---- MODULE Spec2Model ----
(***************************************************************************)
(* The dashboard-summarization proxy: an Express service in two variants   *)
(* (Vertex AI SDK client, raw REST call with a fetched bearer token), each *)
(* with three gated POST routes that render a prompt template, call the    *)
(* generative model once and relay the first candidate's text.             *)
(*                                                                         *)
(* Text is modelled as a sequence of tokens: a token is a piece of static  *)
(* template text or an atom of caller/model supplied text.  "s contains t" *)
(* is "t is a contiguous subsequence of s".                                *)
(***************************************************************************)
EXTENDS Integers, Sequences, FiniteSets

VARIABLES
    variant,             \* which of the two server programs this process is
    environ,             \* process.env of the server process
    storedClientSecret,  \* process.env.GENAI_CLIENT_SECRET read at startup
    config,              \* project, region, model identifier, endpoint URL
    inbox,               \* the HTTP requests the clients are going to send
    req,                 \* per request: position of its handler, locals, response
    issued,              \* number of access tokens the identity helper has issued
    client               \* the invocation of the client helper: inputs, position, promise

vars == <<variant, environ, storedClientSecret, config, inbox, req, issued, client>>

----------------------------------------------------------------------------
(* Bounds                                                                  *)

NumRequests == 2
MaxSummaries == 2

Requests == 1..NumRequests

----------------------------------------------------------------------------
(* JavaScript values that occur in request bodies and model responses      *)

Undefined == [t |-> "undefined", s |-> <<>>, a |-> <<>>]
Null == [t |-> "null", s |-> <<>>, a |-> <<>>]
Str(s) == [t |-> "string", s |-> s, a |-> <<>>]
Arr(a) == [t |-> "array", s |-> <<>>, a |-> a]
EmptyString == Str(<<>>)

IsNullish(v) == v.t \in {"undefined", "null"}

\* Array.prototype.join on an array of strings
RECURSIVE Join(_, _)
Join(a, sep) ==
    IF Len(a) = 0 THEN <<>>
    ELSE IF Len(a) = 1 THEN a[1]
    ELSE a[1] \o sep \o Join(Tail(a), sep)

\* ToString, as applied by template-literal interpolation and by string +
ToString(v) ==
    CASE v.t = "undefined" -> <<"undefined">>
      [] v.t = "null" -> <<"null">>
      [] v.t = "string" -> v.s
      [] v.t = "array" -> Join(v.a, <<",">>)

\* v || ''  followed by interpolation
\* (faulty variant: the || '' guard is missing)
OrEmptyPlain(v) == ToString(v)
OrEmpty(v) ==
    IF IsNullish(v) \/ v = EmptyString THEN <<>> ELSE ToString(v)

\* JSON.stringify of a string element
Quoted(s) == <<"<quote>">> \o s \o <<"<quote>">>

\* JSON.stringify(v): undefined stays undefined, anything else becomes a string
JSONstringify(v) ==
    CASE v.t = "undefined" -> Undefined
      [] v.t = "null" -> Str(<<"null">>)
      [] v.t = "string" -> Str(Quoted(v.s))
      [] v.t = "array" ->
            Str(<<"[">> \o Join([i \in 1..Len(v.a) |-> Quoted(v.a[i])], <<",">>) \o <<"]">>)

\* t is a contiguous subsequence of s
Contains(s, t) ==
    \E i \in 0..(Len(s) - Len(t)) : \A j \in 1..Len(t) : s[i + j] = t[j]

----------------------------------------------------------------------------
(* Request bodies                                                          *)

\* req.body.query: absent, or an object with the QueryDescriptor fields
NoQuery ==
    [t |-> "undefined", title |-> Undefined, note_text |-> Undefined,
     queryBody |-> [t |-> "undefined", fields |-> Undefined], queryData |-> Undefined]
Query(title, note, qbody, qdata) ==
    [t |-> "object", title |-> title, note_text |-> note, queryBody |-> qbody,
     queryData |-> qdata]
NoQueryBody == [t |-> "undefined", fields |-> Undefined]
QueryBody(fields) == [t |-> "object", fields |-> fields]

Body(secret, query, description, nsi, summaries, results) ==
    [client_secret |-> secret, query |-> query, description |-> description,
     nextStepsInstructions |-> nsi, querySummaries |-> summaries,
     queryResults |-> results]

----------------------------------------------------------------------------
(* Prompt Builder.  A builder yields the rendered text, or throws the      *)
(* TypeError of a property access on undefined.                            *)

Rendered(text) == [ok |-> TRUE, text |-> text]
ThrowsTypeError == [ok |-> FALSE, text |-> <<>>]

\* SDK variant: the note test is a disjunction
NotePart_SDK(note_text) ==
    IF note_text # EmptyString \/ note_text # Null
    THEN <<"Query Note: ">> \o ToString(note_text)
    ELSE <<>>

\* REST variant: the note test is a conjunction
NotePart_REST(note_text) ==
    IF note_text # EmptyString /\ note_text # Null
    THEN <<"Query Note: ">> \o ToString(note_text)
    ELSE <<>>

\* SDK variant: const context = `...` of generateQuerySummary
context_SDK(query, description, nextStepsInstructions) ==
    IF query.t # "object" \/ query.queryBody.t # "object" THEN ThrowsTypeError
    ELSE Rendered(
        <<"Summary style/specialized instructions: ">>
        \o OrEmpty(nextStepsInstructions)
        \o <<"Dashboard Detail: ">> \o OrEmpty(description) \o <<" \n">>
        \o <<"Query Details:  <quote>Query Title: ">> \o ToString(query.title) \o <<" \n ">>
        \o NotePart_SDK(query.note_text)
        \o <<" \n Query Fields: ">> \o ToString(query.queryBody.fields)
        \o <<" \n Query Data: ">> \o ToString(JSONstringify(query.queryData))
        \o <<" \n<quote>">>)

\* SDK variant: const queryPrompt = `...` of generateQuerySummary
queryPrompt_SDK(query, description, nextStepsInstructions) ==
    LET c == context_SDK(query, description, nextStepsInstructions) IN
    IF ~c.ok THEN ThrowsTypeError
    ELSE Rendered(<<"<query summary instructions>", "Context: ">> \o c.text
                  \o <<"<query summary example>">>)

\* REST variant: getQuerySummaryPrompt
getQuerySummaryPrompt(query, description, nextStepsInstructions) ==
    IF query.t # "object" \/ query.queryBody.t # "object" THEN ThrowsTypeError
    ELSE Rendered(
        <<"<query summary instructions>">>
        \o <<"Summary style/specialized instructions: ">>
        \o OrEmpty(nextStepsInstructions)
        \o <<"Dashboard Detail: ">> \o OrEmpty(description) \o <<" \n">>
        \o <<"Query Details: <quote>Query Title: ">> \o ToString(query.title) \o <<" \n">>
        \o NotePart_REST(query.note_text)
        \o <<" \nQuery Fields: ">> \o ToString(query.queryBody.fields)
        \o <<" \nQuery Data: ">> \o ToString(JSONstringify(query.queryData))
        \o <<"<quote>">>
        \o <<"<query summary example>">>)

\* rawQuerySummaries.join('\n'): only an array has join
\* (faulty variant: the array is interpolated directly, which joins with a comma)
JoinSummariesComma(querySummaries) ==
    IF querySummaries.t # "array" THEN ThrowsTypeError
    ELSE Rendered(Join(querySummaries.a, <<",">>))
JoinSummaries(querySummaries) ==
    IF querySummaries.t # "array" THEN ThrowsTypeError
    ELSE Rendered(Join(querySummaries.a, <<"\n">>))

\* const finalPromptData = `...` of generateSummary, the same in both variants
\* up to the indentation of the example
finalPromptData(querySummaries, nextStepsInstructions) ==
    LET j == JoinSummaries(querySummaries) IN
    IF ~j.ok THEN ThrowsTypeError
    ELSE Rendered(
        <<"<dashboard summary instructions>", "data: ">> \o j.text
        \o <<"<dashboard summary example>", "<next steps tips>">>
        \o ToString(nextStepsInstructions)
        \o <<"-----------">>)

\* const querySuggestionsPromptData = `...` of generateQuerySuggestions
querySuggestionsPromptData(queryResults, querySummaries, nextStepsInstructions) ==
    Rendered(
        <<"<suggestions instructions>", "outlined in <tick>">>
        \o ToString(nextStepsInstructions)
        \o <<"<tick> and the context provided within <tick>">> \o ToString(querySummaries)
        \o <<"<tick>.", "<date filtering>", "Current Data: <tick>">>
        \o ToString(queryResults)
        \o <<"<tick>", "Previous Analysis and Next Steps: <tick>">>
        \o ToString(querySummaries)
        \o <<"<tick>", "Next Step Instructions: <tick>">>
        \o ToString(nextStepsInstructions)
        \o <<"<tick>", "<suggestions output format>">>)

Routes == {"/generateQuerySummary", "/generateSummary", "/generateQuerySuggestions"}

\* the prompt text the generate function renders from the body fields
BuildPrompt(v, route, body) ==
    CASE route = "/generateQuerySummary" ->
            IF v = "SDK"
            THEN queryPrompt_SDK(body.query, body.description, body.nextStepsInstructions)
            ELSE getQuerySummaryPrompt(body.query, body.description,
                                       body.nextStepsInstructions)
      [] route = "/generateSummary" ->
            finalPromptData(body.querySummaries, body.nextStepsInstructions)
      [] route = "/generateQuerySuggestions" ->
            querySuggestionsPromptData(body.queryResults, body.querySummaries,
                                       body.nextStepsInstructions)

----------------------------------------------------------------------------
(* Model Gateway: what the upstream call can come back with                *)

\* the decoded response envelope, by how much of
\* candidates[0].content.parts[0].text is present, and its error field
Envelope(candidates, content, parts, text, error) ==
    [candidates |-> candidates, content |-> content, parts |-> parts,
     text |-> text, error |-> error]
NoEnvelope == Envelope("absent", "absent", "absent", Undefined, Undefined)

NoOutcome == [kind |-> "none", status |-> "", errorText |-> <<>>, env |-> NoEnvelope]
\* the call itself throws (transport failure; the SDK client raising)
Rejected == [kind |-> "reject", status |-> "", errorText |-> <<"socket hang up">>,
             env |-> NoEnvelope]
\* REST: a response with a non-success status and an error text
NotOk == [kind |-> "notok", status |-> "429", errorText |-> <<"quota exceeded">>,
          env |-> NoEnvelope]
Ok(env) == [kind |-> "ok", status |-> "200", errorText |-> <<>>, env |-> env]

ModelText == {EmptyString, Str(<<"T">>)}

Envelopes ==
    {Envelope("absent", "absent", "absent", Undefined, Undefined),
     Envelope("empty", "absent", "absent", Undefined, Undefined),
     Envelope("present", "absent", "absent", Undefined, Undefined),
     Envelope("present", "present", "absent", Undefined, Undefined),
     Envelope("present", "present", "empty", Undefined, Undefined),
     Envelope("present", "present", "present", Undefined, Undefined),
     Envelope("absent", "absent", "absent", Undefined, Str(<<"model overloaded">>)),
     Envelope("present", "present", "present", Str(<<"T">>), Str(<<"model overloaded">>))}
    \cup {Envelope("present", "present", "present", t, Undefined) : t \in ModelText}

Outcomes(v) ==
    IF v = "SDK" THEN {Rejected} \cup {Ok(e) : e \in Envelopes}
    ELSE {Rejected, NotOk} \cup {Ok(e) : e \in Envelopes}

Returns(value) == [ok |-> TRUE, value |-> value]
ThrowsOnUndefined == [ok |-> FALSE, value |-> Undefined]

\* SDK variant: formattedResp.response.candidates[0].content.parts[0].text
ExtractText_SDK(env) ==
    IF env.candidates # "present" \/ env.content # "present" \/ env.parts # "present"
    THEN ThrowsOnUndefined
    ELSE Returns(env.text)

\* REST variant: data.candidates[0]?.content?.parts[0]?.text || ''
ExtractText_REST(env) ==
    IF env.candidates = "absent" THEN ThrowsOnUndefined
    ELSE IF env.candidates = "empty" \/ env.content = "absent" THEN Returns(EmptyString)
    ELSE IF env.parts = "absent" THEN ThrowsOnUndefined
    ELSE IF env.parts = "empty" THEN Returns(EmptyString)
    ELSE IF IsNullish(env.text) \/ env.text = EmptyString THEN Returns(EmptyString)
    ELSE Returns(env.text)

----------------------------------------------------------------------------
(* Errors and responses                                                    *)

NoError == [kind |-> "none", message |-> <<>>]
TypeError == [kind |-> "TypeError", message |-> <<"Cannot read properties of undefined">>]
TokenError == [kind |-> "TokenError", message |-> <<"Could not load the default credentials">>]
CallError(o) == [kind |-> "CallError", message |-> o.errorText]
\* new Error(`API request failed with status ${response.status}: ${errorText}`)
StatusError(o) ==
    [kind |-> "StatusError",
     message |-> <<"API request failed with status ", o.status, ": ">> \o o.errorText]
\* new Error(`Vertex AI API error: ${data.error.message}`)
ApiError(o) ==
    [kind |-> "ApiError", message |-> <<"Vertex AI API error: ">> \o ToString(o.env.error)]

NoResponse ==
    [status |-> 0, kind |-> "none", text |-> <<>>, fields |-> {}, value |-> Undefined]
\* res.status(n).send(text)
Send(status, text) ==
    [status |-> status, kind |-> "text", text |-> text, fields |-> {}, value |-> Undefined]
\* res.json({ field: value }): JSON.stringify drops a field whose value is undefined
Json(field, value) ==
    [status |-> 200, kind |-> "json", text |-> <<>>,
     fields |-> IF value = Undefined THEN {} ELSE {field}, value |-> value]

\* the key of the object given to res.json
\* (faulty variant: every route answers under summary)
ResultFieldSummary(route) == "summary"
ResultField(route) ==
    IF route = "/generateQuerySuggestions" THEN "suggestions" ELSE "summary"

----------------------------------------------------------------------------
(* HTTP Endpoint Layer                                                     *)

\* log is the order in which the invocation reached its steps: the gate's
\* decision, the rendering of the prompt, the call, its settling, the response
Idle ==
    [pc |-> "idle", accessToken |-> 0, fetches |-> 0, calls |-> 0, bearer |-> 0,
     prompt |-> <<>>, upstream |-> NoOutcome, err |-> NoError, resp |-> NoResponse,
     log |-> <<>>]

\* clientSecret === storedClientSecret
\* (faulty variant: a request without client_secret is let through)
verifyClientSecretOrMissing(body) ==
    body.client_secret = storedClientSecret \/ body.client_secret = Undefined
verifyClientSecret(body) == body.client_secret = storedClientSecret

\* what the comparison leaves in storedClientSecret: a const that is only read
\* (faulty variant: = for ===, the comparison assigns the caller's value)
SecretAfterGateAssigned(body) == body.client_secret
SecretAfterGate(body) == storedClientSecret

\* the else branch of verifyClientSecret
Forbidden(s) ==
    [s EXCEPT !.pc = "done", !.resp = Send(403, <<"Forbidden: Invalid client secret">>),
              !.log = @ \o <<"reject", "respond">>]

\* the catch block of a route handler: log e, answer the static 500
\* (faulty variant: the exception message is sent to the caller)
CatchLeaky(s, e) ==
    [s EXCEPT !.pc = "done", !.err = e, !.resp = Send(500, e.message),
              !.log = @ \o <<"respond">>]
Catch(s, e) ==
    [s EXCEPT !.pc = "done", !.err = e, !.resp = Send(500, <<"Internal Server Error">>),
              !.log = @ \o <<"respond">>]

\* the Authorization header of the REST call
\* (faulty variant: the first token ever issued is kept and presented again)
BearerCached(accessToken) == IF issued >= 1 THEN 1 ELSE accessToken
Bearer(accessToken) == accessToken

\* render the prompt and issue the one upstream call (generateContent / fetch)
\* (faulty variant: a missing nextStepsInstructions throws as well)
CallModelValidating(s, in) ==
    LET p == BuildPrompt(variant, in.route, in.body) IN
    IF ~p.ok \/ in.body.nextStepsInstructions = Undefined THEN Catch(s, TypeError)
    ELSE [s EXCEPT !.pc = "awaitModel", !.prompt = p.text, !.calls = @ + 1,
                   !.bearer = IF variant = "REST" THEN Bearer(s.accessToken) ELSE 0,
                   !.log = @ \o <<"prompt", "call">>]
CallModel(s, in) ==
    LET p == BuildPrompt(variant, in.route, in.body) IN
    IF ~p.ok THEN Catch(s, TypeError)
    ELSE [s EXCEPT !.pc = "awaitModel", !.prompt = p.text, !.calls = @ + 1,
                   !.bearer = IF variant = "REST" THEN Bearer(s.accessToken) ELSE 0,
                   !.log = @ \o <<"prompt", "call">>]

\* middleware and route handler up to the first await
\* (faulty variant: the middleware answers 403 and calls next() all the same)
OnRequestNextAlways(s, in) ==
    LET t == IF ~verifyClientSecret(in.body) THEN Forbidden(s)
             ELSE [s EXCEPT !.log = @ \o <<"admit">>]
    IN
    IF variant = "REST"
    THEN [t EXCEPT !.pc = "awaitToken", !.fetches = @ + 1]
    ELSE CallModel(t, in)
OnRequest(s, in) ==
    IF ~verifyClientSecret(in.body) THEN Forbidden(s)
    ELSE IF variant = "REST"
         THEN [s EXCEPT !.pc = "awaitToken", !.fetches = @ + 1, !.log = @ \o <<"admit">>]
         ELSE CallModel([s EXCEPT !.log = @ \o <<"admit">>], in)

\* getAccessToken settles: rethrow on failure, else go on to the call
\* (faulty variant: the body is kept in a module-level variable, which the
\* latest request to arrive has overwritten by the time the handler resumes)
OnTokenSharedBody(s, in, granted) ==
    LET arrived == {q \in Requests : req[q].pc # "idle"}
        last == CHOOSE q \in arrived : \A p \in arrived : p <= q
    IN
    IF ~granted THEN Catch(s, TokenError)
    ELSE CallModel([s EXCEPT !.accessToken = issued + 1],
                   [in EXCEPT !.body = inbox[last].body])
OnToken(s, in, granted) ==
    IF ~granted THEN Catch(s, TokenError)
    ELSE CallModel([s EXCEPT !.accessToken = issued + 1], in)

\* the awaited call throws: the exception reaches the catch of the route
\* (faulty variant: the call is issued once more before giving up)
OnCallRejectedRetry(s, o) ==
    IF s.calls < 2 THEN [s EXCEPT !.calls = @ + 1]
    ELSE Catch([s EXCEPT !.upstream = o, !.log = @ \o <<"settled">>], CallError(o))
OnCallRejected(s, o) ==
    Catch([s EXCEPT !.upstream = o, !.log = @ \o <<"settled">>], CallError(o))

\* the upstream call settles: checks, extraction, res.json or catch
OnModel(s, in, o) ==
    LET t == [s EXCEPT !.upstream = o, !.log = @ \o <<"settled">>] IN
    IF o.kind = "reject" THEN OnCallRejected(s, o)
    ELSE IF variant = "SDK"
    THEN LET x == ExtractText_SDK(o.env) IN
         IF ~x.ok THEN Catch(t, TypeError)
         ELSE [t EXCEPT !.pc = "done", !.resp = Json(ResultField(in.route), x.value),
                        !.log = @ \o <<"respond">>]
    ELSE IF o.kind = "notok" THEN Catch(t, StatusError(o))
    ELSE IF ~(IsNullish(o.env.error) \/ o.env.error = EmptyString)
    THEN Catch(t, ApiError(o))
    ELSE LET x == ExtractText_REST(o.env) IN
         IF ~x.ok THEN Catch(t, TypeError)
         ELSE [t EXCEPT !.pc = "done", !.resp = Json(ResultField(in.route), x.value),
                        !.log = @ \o <<"respond">>]

----------------------------------------------------------------------------
(* The requests clients send                                               *)

Input(route, body) == [present |-> TRUE, route |-> route, body |-> body]
NoInput ==
    [present |-> FALSE, route |-> "/generateSummary",
     body |-> Body(Undefined, NoQuery, Undefined, Undefined, Undefined, Undefined)]

ConfiguredSecrets == {Undefined, Str(<<"s3cret">>)}

\* process.env: a deployment that sets PROJECT, REGION and MODEL_ID and leaves
\* the secret unset, and one that sets PROJECT and the secret only
Environment(secret, project, region, model) ==
    [GENAI_CLIENT_SECRET |-> secret, PROJECT |-> project, REGION |-> region,
     MODEL_ID |-> model]
Environments ==
    {Environment(Undefined, Str(<<"my-project">>),
                 Str(<<"europe-west1">>), Str(<<"gemini-pro">>)),
     Environment(Str(<<"s3cret">>), Str(<<"my-project">>), Undefined, Undefined)}

\* v || d
OrDefault(v, d) == IF IsNullish(v) \/ v = EmptyString THEN d ELSE v

\* the module-level constants read from the environment when the program loads
LoadConfig(v, env) ==
    IF v = "SDK"
    THEN [PROJECT_ID |-> env.PROJECT, REGION |-> env.REGION,
          MODEL_ID |-> Str(<<"gemini-1.5-flash">>), API_ENDPOINT |-> Undefined]
    ELSE LET region == OrDefault(env.REGION, Str(<<"us-central1">>))
             model == OrDefault(env.MODEL_ID, Str(<<"gemini-2.0-flash">>))
         IN [PROJECT_ID |-> env.PROJECT, REGION |-> region, MODEL_ID |-> model,
             API_ENDPOINT |->
                Str(<<"https://">> \o ToString(region)
                    \o <<"-aiplatform.googleapis.com/v1/projects/">>
                    \o ToString(env.PROJECT)
                    \o <<"/locations/">> \o ToString(region)
                    \o <<"/publishers/google/models/">> \o ToString(model)
                    \o <<":generateContent">>)]
ClientSecrets == {Undefined, Str(<<"s3cret">>), Str(<<"wrong">>)}

SeqsUpTo(S, n) == UNION {[1..k -> S] : k \in 0..n}

Texts == {Undefined, Str(<<"I">>)}
Notes == {Undefined, Null, EmptyString, Str(<<"N">>)}
QueryBodies == {NoQueryBody, QueryBody(Arr(<< <<"source">>, <<"amount">> >>))}
QueryDatas == {Undefined, Arr(<< <<"row">> >>)}
Queries ==
    {NoQuery} \cup
    {Query(Str(<<"Web Traffic">>), n, b, d) : n \in Notes, b \in QueryBodies, d \in QueryDatas}
SummaryTexts == {<<>>, <<"A">>, <<"B">>}
SummaryLists ==
    {Undefined, Str(<<"A">>)} \cup {Arr(a) : a \in SeqsUpTo(SummaryTexts, MaxSummaries)}

\* every combination of present, absent and malformed fields, per route
RichInputs ==
    {Input("/generateQuerySummary", Body(c, q, d, i, Undefined, Undefined)) :
        c \in ClientSecrets, q \in Queries, d \in Texts, i \in Texts}
    \cup
    {Input("/generateSummary", Body(c, NoQuery, Undefined, i, l, Undefined)) :
        c \in ClientSecrets, i \in Texts, l \in SummaryLists}
    \cup
    {Input("/generateQuerySuggestions", Body(c, NoQuery, Undefined, i, l, q)) :
        c \in ClientSecrets, i \in Texts,
        l \in {Undefined, Arr(<< <<"A">>, <<"B">> >>)}, q \in {Undefined, Str(<<"R">>)}}

\* two well-formed requests and one with an empty body
WellFormed ==
    Body(Undefined,
         Query(Str(<<"Web Traffic">>), Str(<<"N">>),
               QueryBody(Arr(<< <<"source">>, <<"amount">> >>)), Arr(<< <<"row">> >>)),
         Str(<<"D">>), Str(<<"I">>), Arr(<< <<"A">>, <<"B">> >>), Str(<<"R">>))
Malformed == Body(Undefined, NoQuery, Undefined, Undefined, Undefined, Undefined)
SmallInputs ==
    {Input(route, [WellFormed EXCEPT !.client_secret = c]) :
        route \in {"/generateQuerySummary", "/generateQuerySuggestions"},
        c \in {Undefined, Str(<<"s3cret">>)}}
    \cup
    {Input("/generateSummary", [Malformed EXCEPT !.client_secret = c]) :
        c \in {Undefined, Str(<<"s3cret">>)}}

----------------------------------------------------------------------------
(* The client helper fetchPrescriptiveAnalysis                             *)

\* the two copies of the helper: the first returns response.body, the second
\* response.body.suggestions
Helpers == {"part_001", "utils"}

LocalService == "http://localhost:5000"
RestfulServices == {LocalService, "https://genai.example.com"}

\* response.body: absent, or an object with or without suggestions
NoBody == [t |-> "undefined", suggestions |-> Undefined]
ObjectBody(suggestions) == [t |-> "object", suggestions |-> suggestions]
ResponseBodies == {NoBody, ObjectBody(Undefined), ObjectBody(Str(<<"S">>))}

\* how the awaited proxy call settles: it throws, it resolves with undefined,
\* or it resolves with a response
ProxyOutcome(kind, ok, body) == [kind |-> kind, ok |-> ok, body |-> body]
NoProxyOutcome == ProxyOutcome("none", FALSE, NoBody)
ProxyOutcomes ==
    {ProxyOutcome("throws", FALSE, NoBody), ProxyOutcome("undefined", FALSE, NoBody)}
        \cup {ProxyOutcome("response", ok, b) : ok \in BOOLEAN, b \in ResponseBodies}

\* the promise the async function returns
Pending == [state |-> "pending", body |-> NoBody, value |-> Undefined]
Thrown == [state |-> "rejected", body |-> NoBody, value |-> Undefined]
\* return of null, undefined or the suggestions
ReturnValue(v) == [state |-> "fulfilled", body |-> NoBody, value |-> v]
\* return of response.body
ReturnBody(b) ==
    IF b = NoBody THEN ReturnValue(Undefined)
    ELSE [state |-> "fulfilled", body |-> b, value |-> Undefined]

NoPost ==
    [method |-> "", proxy |-> "", url |-> <<>>, query |-> Undefined,
     client_secret |-> Undefined]

Invocation(helper, userQuestion, restfulService, secret) ==
    [pc |-> "idle", helper |-> helper, userQuestion |-> userQuestion,
     restfulService |-> restfulService, GENAI_CLIENT_SECRET |-> secret,
     posts |-> 0, sent |-> NoPost, response |-> NoProxyOutcome, promise |-> Pending]
NotInvoked == Invocation("part_001", Undefined, LocalService, Undefined)
Invocations ==
    {Invocation(h, q, s, k) :
        h \in Helpers, q \in {Str(<<"Q">>), EmptyString}, s \in RestfulServices,
        k \in ConfiguredSecrets}

\* extensionSDK.createSecretKeyTag(name): a placeholder the server proxy fills in
createSecretKeyTag(name) == Str(<<"secret_key_tag ", name>>)

\* the request the helper hands to the proxy it picks
PostOf(c) ==
    LET local == c.restfulService = LocalService IN
    [method |-> "POST",
     proxy |-> IF local THEN "fetchProxy" ELSE "serverProxy",
     url |-> <<c.restfulService, "/generatePerspectiveAnalytics">>,
     query |-> c.userQuestion,
     client_secret |-> IF local THEN c.GENAI_CLIENT_SECRET
                       ELSE createSecretKeyTag("genai_client_secret")]

\* the helper up to its await
fetchPrescriptiveAnalysis(c) ==
    [c EXCEPT !.pc = "awaitProxy", !.posts = @ + 1, !.sent = PostOf(c)]

\* the catch block: log the error, return null
\* (faulty variant: the error is thrown on to the caller)
CatchRethrows(c) == [c EXCEPT !.pc = "settled", !.promise = Thrown]
CatchReturnsNull(c) == [c EXCEPT !.pc = "settled", !.promise = ReturnValue(Null)]

\* const data = await response.body (first copy) or response.body.suggestions
\* (second copy), which throws on a response without body
ReadData(helper, response) ==
    IF helper = "part_001" THEN [ok |-> TRUE, returned |-> ReturnBody(response.body)]
    ELSE IF response.body.t # "object" THEN [ok |-> FALSE, returned |-> Pending]
    ELSE [ok |-> TRUE, returned |-> ReturnValue(response.body.suggestions)]

\* the proxy call settles: the rest of the try block, or the catch
OnProxy(c, o) ==
    LET t == [c EXCEPT !.response = o] IN
    IF o.kind \in {"throws", "undefined"} THEN CatchReturnsNull(t)
    ELSE IF o.ok
    THEN LET d == ReadData(c.helper, o) IN
         IF ~d.ok THEN CatchReturnsNull(t)
         ELSE [t EXCEPT !.pc = "settled", !.promise = d.returned]
    ELSE [t EXCEPT !.pc = "settled", !.promise = ReturnValue(Null)]

----------------------------------------------------------------------------
(* Actions                                                                 *)

\* an HTTP request arrives
PostRequest(r) ==
    /\ inbox[r].present
    /\ req[r].pc = "idle"
    /\ req' = [req EXCEPT ![r] = OnRequest(req[r], inbox[r])]
    /\ storedClientSecret' = SecretAfterGate(inbox[r].body)
    /\ UNCHANGED <<variant, environ, config, inbox, issued, client>>

\* REST variant: the identity helper answers the token request
TokenResult(r) ==
    /\ req[r].pc = "awaitToken"
    /\ \E granted \in BOOLEAN :
          /\ req' = [req EXCEPT ![r] = OnToken(req[r], inbox[r], granted)]
          /\ issued' = IF granted THEN issued + 1 ELSE issued
    /\ UNCHANGED <<variant, environ, storedClientSecret, config, inbox, client>>

\* the model endpoint answers the call
ModelResult(r) ==
    /\ req[r].pc = "awaitModel"
    /\ \E o \in Outcomes(variant) :
          req' = [req EXCEPT ![r] = OnModel(req[r], inbox[r], o)]
    /\ UNCHANGED <<variant, environ, storedClientSecret, config, inbox, issued, client>>

Next == \E r \in Requests : PostRequest(r) \/ TokenResult(r) \/ ModelResult(r)

Startup ==
    /\ variant \in {"SDK", "REST"}
    /\ environ \in Environments
    /\ storedClientSecret = environ.GENAI_CLIENT_SECRET
    /\ config = LoadConfig(variant, environ)
    /\ req = [r \in Requests |-> Idle]
    /\ issued = 0

\* concurrent requests
Init ==
    /\ Startup
    /\ inbox \in [Requests -> SmallInputs]
    /\ client = NotInvoked

Spec == Init /\ [][Next]_vars

\* one request, with every combination of body fields
PromptInit ==
    /\ Startup
    /\ inbox \in {[r \in Requests |-> IF r = 1 THEN i ELSE NoInput] : i \in RichInputs}
    /\ client = NotInvoked

PromptSpec == PromptInit /\ [][Next]_vars

\* the extension calls the helper
Invoke ==
    /\ client.pc = "idle"
    /\ client' = fetchPrescriptiveAnalysis(client)
    /\ UNCHANGED <<variant, environ, storedClientSecret, config, inbox, req, issued>>

\* the proxy call of the helper settles
ProxyResult ==
    /\ client.pc = "awaitProxy"
    /\ \E o \in ProxyOutcomes : client' = OnProxy(client, o)
    /\ UNCHANGED <<variant, environ, storedClientSecret, config, inbox, req, issued>>

ClientNext == Invoke \/ ProxyResult

\* one invocation of the helper, the service receiving nothing else
ClientInit ==
    /\ Startup
    /\ inbox = [r \in Requests |-> NoInput]
    /\ client \in Invocations

ClientSpec == ClientInit /\ [][ClientNext]_vars

----------------------------------------------------------------------------
(* Vocabulary of the properties                                            *)

Arrived(r) == inbox[r].present /\ req[r].pc # "idle"
Answered(r) == inbox[r].present /\ req[r].pc = "done"
SecretMatches(r) == inbox[r].body.client_secret = storedClientSecret
InternalServerError == Send(500, <<"Internal Server Error">>)

\* the body holds what the route's template dereferences
Renderable(in) ==
    CASE in.route = "/generateQuerySummary" ->
            in.body.query.t = "object" /\ in.body.query.queryBody.t = "object"
      [] in.route = "/generateSummary" -> in.body.querySummaries.t = "array"
      [] in.route = "/generateQuerySuggestions" -> TRUE

\* the credential step is behind the request (the SDK variant has none)
TokenGranted(r) == variant = "SDK" \/ req[r].accessToken # 0
TokenFailed(r) ==
    variant = "REST" /\ req[r].pc = "done" /\ req[r].fetches = 1 /\ req[r].accessToken = 0

Range(s) == {s[i] : i \in 1..Len(s)}

\* the elements of a in order, a newline between neighbours
RECURSIVE Lines(_)
Lines(a) ==
    IF Len(a) = 0 THEN <<>>
    ELSE IF Len(a) = 1 THEN a[1]
    ELSE Lines(SubSeq(a, 1, Len(a) - 1)) \o <<"\n">> \o a[Len(a)]

----------------------------------------------------------------------------
(* Properties                                                              *)

\* C1: a request whose client_secret is not strictly equal to the configured
\* secret is answered 403 whatever else its body holds, and nothing further
\* happens for it: no credential fetch, no prompt, no model call.
C1_MismatchIsForbidden ==
    \A r \in Requests :
        (Arrived(r) /\ ~SecretMatches(r)) =>
            /\ req[r].pc = "done"
            /\ req[r].resp = Send(403, <<"Forbidden: Invalid client secret">>)
            /\ req[r].fetches = 0
            /\ req[r].calls = 0
            /\ req[r].prompt = <<>>
            /\ req[r].accessToken = 0

C1_Witness ==
    \E r \in Requests :
        /\ Answered(r) /\ ~SecretMatches(r)
        /\ inbox[r].body.client_secret = Str(<<"wrong">>)
        /\ Renderable(inbox[r])
        /\ inbox[r].route = "/generateQuerySummary"
        /\ req[r].resp.status = 403

\* C2 as stated: every answered request whose client_secret equals the
\* configured secret had a model call issued, whatever its other fields.
C2_AdmittedAlwaysCalls ==
    \A r \in Requests :
        (Answered(r) /\ SecretMatches(r)) => req[r].calls = 1

\* C2 amended: a request whose client_secret equals the configured secret has
\* its model call issued as soon as its credential step is behind it, provided
\* its body holds what the route's template dereferences; otherwise it is
\* answered 500 without a model call.
C2_AdmittedCallsWhenRenderable ==
    \A r \in Requests :
        (Arrived(r) /\ SecretMatches(r)) =>
            /\ (Renderable(inbox[r]) /\ TokenGranted(r)) => req[r].calls = 1
            /\ (Answered(r) /\ (~Renderable(inbox[r]) \/ TokenFailed(r))) =>
                    req[r].calls = 0 /\ req[r].resp.status = 500

C2_Witness ==
    \E r \in Requests :
        /\ Arrived(r) /\ SecretMatches(r) /\ Renderable(inbox[r]) /\ TokenGranted(r)
        /\ inbox[r].body.nextStepsInstructions = Undefined
        /\ inbox[r].body.description = Undefined
        /\ req[r].pc = "awaitModel"
        /\ req[r].calls = 1

\* C3 as stated: the query-summary prompt holds "Query Note: " immediately
\* followed by note_text when note_text is a non-empty string, and holds no
\* "Query Note: " when note_text is the empty string, null or absent.
C3_NoteOnlyWhenNonEmpty ==
    \A r \in Requests :
        (Arrived(r) /\ inbox[r].route = "/generateQuerySummary" /\ req[r].calls = 1) =>
            LET n == inbox[r].body.query.note_text IN
            /\ (n.t = "string" /\ n.s # <<>>) =>
                    Contains(req[r].prompt, <<"Query Note: ">> \o n.s)
            /\ (n \in {EmptyString, Null, Undefined}) =>
                    ~Contains(req[r].prompt, <<"Query Note: ">>)

\* C4: the dashboard-summary prompt holds, right after "data: ", the elements
\* of querySummaries in their order with a single newline between neighbours.
C4_SummariesNewlineJoined ==
    \A r \in Requests :
        (Arrived(r) /\ inbox[r].route = "/generateSummary" /\ req[r].calls = 1) =>
            /\ inbox[r].body.querySummaries.t = "array"
            /\ Contains(req[r].prompt,
                        <<"data: ">> \o Lines(inbox[r].body.querySummaries.a)
                        \o <<"<dashboard summary example>">>)

C4_Witness ==
    \E r \in Requests :
        /\ Arrived(r) /\ inbox[r].route = "/generateSummary" /\ req[r].calls = 1
        /\ inbox[r].body.querySummaries = Arr(<< <<"A">>, <<"B">> >>)
        /\ Contains(req[r].prompt, <<"A", "\n", "B">>)

\* a segment of candidates[0].content.parts[0].text is missing
SegmentMissing(env) ==
    \/ env.candidates # "present"
    \/ env.content # "present"
    \/ env.parts # "present"
    \/ env.text = Undefined

\* the upstream call came back with a success status and no error field
UpstreamSucceeded(r) ==
    /\ req[r].upstream.kind = "ok"
    /\ req[r].upstream.env.error = Undefined

\* C5 as stated: a successful upstream response with a missing segment of
\* candidates[0].content.parts[0].text is answered 200 with the result field
\* set to the empty string.
C5_MissingSegmentGivesEmpty ==
    \A r \in Requests :
        (Answered(r) /\ UpstreamSucceeded(r) /\ SegmentMissing(req[r].upstream.env)) =>
            /\ req[r].resp.status = 200
            /\ req[r].resp.fields =
                  {IF inbox[r].route = "/generateQuerySuggestions"
                   THEN "suggestions" ELSE "summary"}
            /\ req[r].resp.value = EmptyString

\* the request was admitted and failed: credential, prompt or upstream
FailedAfterGate(r) ==
    /\ Answered(r) /\ SecretMatches(r)
    /\ \/ TokenFailed(r)
       \/ ~Renderable(inbox[r])
       \/ req[r].upstream.kind \in {"reject", "notok"}
       \/ variant = "REST" /\ req[r].upstream.kind = "ok"
            /\ req[r].upstream.env.error # Undefined
       \/ req[r].err # NoError

\* C6: every admitted request that fails is answered with status 500 and the
\* one static body, which holds nothing of the upstream status, the upstream
\* error text or the exception message.
C6_FailuresCollapseTo500 ==
    \A r \in Requests :
        FailedAfterGate(r) =>
            /\ req[r].resp = InternalServerError
            /\ Range(req[r].resp.text) \cap
                 (Range(req[r].err.message) \cup Range(req[r].upstream.errorText)
                    \cup {req[r].upstream.status}) = {}

C6_Witness ==
    \E r \in Requests :
        /\ FailedAfterGate(r)
        /\ req[r].upstream = NotOk
        /\ req[r].err.message =
              <<"API request failed with status ", "429", ": ", "quota exceeded">>
        /\ req[r].resp.status = 500

\* C7: an admitted request whose model call succeeds with first-candidate text
\* t is answered 200 with a JSON object of exactly one field holding t: summary
\* on /generateQuerySummary and /generateSummary, suggestions on
\* /generateQuerySuggestions.
C7_SuccessRelaysText ==
    \A r \in Requests :
        (/\ Answered(r)
         /\ req[r].upstream.kind = "ok"
         /\ ~SegmentMissing(req[r].upstream.env)
         /\ (variant = "REST" => req[r].upstream.env.error = Undefined)) =>
            /\ req[r].resp.status = 200
            /\ req[r].resp.kind = "json"
            /\ req[r].resp.fields =
                  {IF inbox[r].route = "/generateQuerySuggestions"
                   THEN "suggestions" ELSE "summary"}
            /\ req[r].resp.value = req[r].upstream.env.text

C7_Witness ==
    \E r \in Requests :
        /\ Answered(r)
        /\ inbox[r].route = "/generateQuerySuggestions"
        /\ req[r].upstream.env.text = Str(<<"T">>)
        /\ req[r].resp.fields = {"suggestions"}
        /\ req[r].resp.value = Str(<<"T">>)

\* the body lacks one of the fields its route reads
FieldMissing(in) ==
    CASE in.route = "/generateQuerySummary" ->
            \/ in.body.query.t = "undefined"
            \/ in.body.description = Undefined
            \/ in.body.nextStepsInstructions = Undefined
      [] in.route = "/generateSummary" ->
            \/ in.body.querySummaries = Undefined
            \/ in.body.nextStepsInstructions = Undefined
      [] in.route = "/generateQuerySuggestions" ->
            \/ in.body.queryResults = Undefined
            \/ in.body.querySummaries = Undefined
            \/ in.body.nextStepsInstructions = Undefined

\* C8 as stated: an admitted request whose body lacks an expected field is not
\* rejected; the field is interpolated as the text "undefined" and the model
\* call is made with that prompt.
C8_MissingFieldIsUndefinedText ==
    \A r \in Requests :
        (Arrived(r) /\ SecretMatches(r) /\ TokenGranted(r) /\ FieldMissing(inbox[r])) =>
            /\ req[r].calls = 1
            /\ Contains(req[r].prompt, <<"undefined">>)

\* C8 amended: no route validates its body.  A missing queryResults,
\* querySummaries or nextStepsInstructions on /generateQuerySuggestions and a
\* missing nextStepsInstructions on /generateSummary are interpolated as the
\* text "undefined" and the model call is made.  A missing description or
\* nextStepsInstructions on /generateQuerySummary is interpolated as the empty
\* string and the model call is made.  A missing query on /generateQuerySummary
\* and a missing querySummaries on /generateSummary throw while the prompt is
\* rendered: no model call is made and the request is answered 500.
C8_MissingFieldsPerRoute ==
    \A r \in Requests :
        (Arrived(r) /\ SecretMatches(r) /\ TokenGranted(r)) =>
            LET b == inbox[r].body
                p == req[r].prompt
                thrown == req[r].calls = 0 /\ req[r].resp = InternalServerError
            IN
            CASE inbox[r].route = "/generateQuerySuggestions" ->
                    /\ req[r].calls = 1
                    /\ b.queryResults = Undefined =>
                          Contains(p, <<"Current Data: <tick>", "undefined", "<tick>">>)
                    /\ b.querySummaries = Undefined =>
                          Contains(p, <<"Previous Analysis and Next Steps: <tick>",
                                        "undefined", "<tick>">>)
                    /\ b.nextStepsInstructions = Undefined =>
                          Contains(p, <<"Next Step Instructions: <tick>",
                                        "undefined", "<tick>">>)
              [] inbox[r].route = "/generateSummary" ->
                    /\ b.querySummaries = Undefined => thrown
                    /\ (b.querySummaries.t = "array"
                            /\ b.nextStepsInstructions = Undefined) =>
                          /\ req[r].calls = 1
                          /\ Contains(p, <<"<next steps tips>", "undefined",
                                           "-----------">>)
              [] inbox[r].route = "/generateQuerySummary" ->
                    /\ b.query.t = "undefined" => thrown
                    /\ (Renderable(inbox[r]) /\ b.description = Undefined) =>
                          /\ req[r].calls = 1
                          /\ Contains(p, <<"Dashboard Detail: ", " \n">>)
                    /\ (Renderable(inbox[r]) /\ b.nextStepsInstructions = Undefined) =>
                          /\ req[r].calls = 1
                          /\ Contains(p, <<"Summary style/specialized instructions: ",
                                           "Dashboard Detail: ">>)

C8_Witness ==
    \E r \in Requests :
        /\ Arrived(r) /\ SecretMatches(r) /\ TokenGranted(r)
        /\ inbox[r].route = "/generateQuerySummary"
        /\ Renderable(inbox[r])
        /\ inbox[r].body.description = Undefined
        /\ inbox[r].body.nextStepsInstructions = Undefined
        /\ req[r].calls = 1
        /\ ~Contains(req[r].prompt, <<"Dashboard Detail: ", "undefined">>)

\* C9: at most one upstream model call is issued for a request; once the call
\* has settled, by failing or by answering, the request is answered and that
\* one call stays its only one.
C9_AtMostOneCall ==
    \A r \in Requests :
        /\ req[r].calls <= 1
        /\ req[r].upstream # NoOutcome => req[r].calls = 1 /\ req[r].pc = "done"
        /\ req[r].pc = "awaitModel" => req[r].calls = 1

C9_Witness ==
    \E r \in Requests :
        /\ Answered(r)
        /\ req[r].upstream.kind = "reject"
        /\ req[r].calls = 1
        /\ req[r].resp.status = 500

\* C10: in the REST variant a request's model call carries the bearer token
\* that request acquired itself, after exactly one acquisition; no two requests
\* present the same token; a request whose acquisition fails issues no model
\* call and is answered with the 500 internal error.
C10_OwnTokenPerRequest ==
    variant = "REST" =>
        /\ \A r \in Requests :
              /\ req[r].calls = 1 =>
                    /\ req[r].fetches = 1
                    /\ req[r].accessToken # 0
                    /\ req[r].bearer = req[r].accessToken
              /\ TokenFailed(r) =>
                    req[r].calls = 0 /\ req[r].resp = InternalServerError
        /\ \A r, q \in Requests :
              (r # q /\ req[r].calls = 1 /\ req[q].calls = 1) =>
                    req[r].bearer # req[q].bearer

C10_Witness ==
    \E r, q \in Requests :
        /\ variant = "REST"
        /\ r # q
        /\ req[r].calls = 1 /\ req[r].bearer # 0
        /\ req[r].bearer # req[q].bearer
        /\ TokenFailed(q) /\ req[q].resp.status = 500

\* what a request is answered, read off the handler for variant v from the
\* request's own body in, the fate of its own token acquisition and the
\* outcome o of its own upstream call
ExpectedResponse(v, in, tokenFailed, o) ==
    LET e == o.env
        field == IF in.route = "/generateQuerySuggestions" THEN "suggestions" ELSE "summary"
        relay(value) ==
            [status |-> 200, kind |-> "json", text |-> <<>>,
             fields |-> IF value = Undefined THEN {} ELSE {field}, value |-> value]
    IN
    IF in.body.client_secret # storedClientSecret
    THEN Send(403, <<"Forbidden: Invalid client secret">>)
    ELSE IF tokenFailed \/ ~Renderable(in) \/ o.kind \in {"reject", "notok"}
    THEN InternalServerError
    ELSE IF v = "SDK"
    THEN IF e.candidates = "present" /\ e.content = "present" /\ e.parts = "present"
         THEN relay(e.text)
         ELSE InternalServerError
    ELSE IF e.error \notin {Undefined, Null, EmptyString} THEN InternalServerError
    ELSE IF e.candidates = "absent" THEN InternalServerError
    ELSE IF e.candidates = "empty" \/ e.content = "absent" THEN relay(EmptyString)
    ELSE IF e.parts = "absent" THEN InternalServerError
    ELSE IF e.parts = "empty" \/ e.text \in {Undefined, Null} THEN relay(EmptyString)
    ELSE relay(e.text)

\* the handler of r can take its next step in this state
CanStep(r) == ENABLED (PostRequest(r) \/ TokenResult(r) \/ ModelResult(r))

\* C11: whatever the other requests are doing, suspended on an outbound call
\* or not, a request that is not yet answered can take its next step, and the
\* answer it gets is the one its own body, its own token acquisition and its
\* own upstream outcome determine.
C11_RequestsAreIndependent ==
    \A r \in Requests :
        /\ (inbox[r].present /\ req[r].pc # "done") => CanStep(r)
        /\ Answered(r) =>
              req[r].resp =
                  ExpectedResponse(variant, inbox[r], TokenFailed(r), req[r].upstream)

C11_Witness ==
    \E r, q \in Requests :
        /\ r # q
        /\ variant = "REST"
        /\ req[q].pc = "awaitModel"
        /\ inbox[q].route = "/generateQuerySuggestions"
        /\ inbox[r].route = "/generateQuerySummary"
        /\ Answered(r)
        /\ req[r].accessToken > req[q].accessToken
        /\ req[r].resp.status = 200
        /\ req[r].resp.value = Str(<<"T">>)

\* C12: no step of any request, rejected, successful or failed, changes the
\* configured secret, the project, the region, the model identifier or the
\* endpoint URL, which keep the values the environment gave them at startup;
\* and a step of one request changes the record of no other request.
C12_ConfigurationIsFrozen ==
    [][/\ storedClientSecret' = storedClientSecret
       /\ storedClientSecret' = environ.GENAI_CLIENT_SECRET
       /\ config' = config
       /\ config'.PROJECT_ID = environ.PROJECT
       /\ environ' = environ
       /\ variant' = variant
       /\ \A r, q \in Requests :
             r # q => (req'[r] = req[r] \/ req'[q] = req[q])]_vars

C12_Witness ==
    \E r, q \in Requests :
        /\ Answered(r) /\ req[r].resp.status = 403
        /\ Answered(q) /\ req[q].resp.status \in {200, 500}
        /\ variant = "REST"
        /\ storedClientSecret = Str(<<"s3cret">>)
        /\ config.REGION = Str(<<"us-central1">>)
        /\ config.API_ENDPOINT =
              Str(<<"https://", "us-central1", "-aiplatform.googleapis.com/v1/projects/",
                    "my-project", "/locations/", "us-central1",
                    "/publishers/google/models/", "gemini-2.0-flash",
                    ":generateContent">>)

OtherVariant == IF variant = "SDK" THEN "REST" ELSE "SDK"

\* the tokens of a prompt that come from the caller: field values, their
\* renderings and the note label that is rendered with the note
DataTokens ==
    {"I", "D", "N", "A", "B", "R", "Web Traffic", "source", "amount", "row",
     "undefined", "null", ",", "[", "]", "\n", "Query Note: "}
CallerData(text) ==
    LET isData(t) == t \in DataTokens IN SelectSeq(text, isData)

\* C13 as stated: for the same route, body and upstream outcome the two
\* variants build the same caller-data content in the prompt and answer with
\* the same status and the same result field value.
C13_VariantsAgree ==
    \A r \in Requests :
        /\ req[r].calls = 1 =>
              CallerData(req[r].prompt) =
                  CallerData(BuildPrompt(OtherVariant, inbox[r].route, inbox[r].body).text)
        /\ (Answered(r) /\ ~TokenFailed(r)) =>
              LET other == ExpectedResponse(OtherVariant, inbox[r], FALSE, req[r].upstream)
              IN /\ req[r].resp.status = other.status
                 /\ req[r].resp.fields = other.fields
                 /\ req[r].resp.value = other.value

\* how often, and where first, a step occurs in the log of an invocation
Count(log, e) == Cardinality({i \in 1..Len(log) : log[i] = e})
Position(log, e) ==
    IF \A i \in 1..Len(log) : log[i] # e THEN 0
    ELSE CHOOSE i \in 1..Len(log) : log[i] = e /\ \A j \in 1..(i - 1) : log[j] # e
Suspended(r) == req[r].pc \in {"awaitToken", "awaitModel"}

\* C14: every request is one pass gate, prompt, call, response, in that order:
\* a model call is preceded by the gate's admission and by the rendering of its
\* prompt, the response of a request that called the model follows the
\* settling of that call, and a request that is not waiting on an outbound
\* call has received exactly one response, with status 403, 200 or 500; no
\* request ever receives two.
C14_OnePassInOrder ==
    \A r \in Requests :
        LET log == req[r].log
            admit == Position(log, "admit")
            prompt == Position(log, "prompt")
            call == Position(log, "call")
            settled == Position(log, "settled")
            respond == Position(log, "respond")
            responses == Count(log, "respond")
        IN
        /\ Arrived(r) => log[1] \in {"admit", "reject"}
        /\ Count(log, "call") = req[r].calls
        /\ call > 0 =>
              /\ admit = 1
              /\ prompt = call - 1
              /\ Position(log, "reject") = 0
        /\ (call > 0 /\ respond > 0) =>
              /\ call < settled
              /\ settled < respond
              /\ req[r].upstream # NoOutcome
        /\ respond > 0 => respond = Len(log)
        /\ responses <= 1
        /\ (Arrived(r) /\ ~Suspended(r)) =>
              /\ responses = 1
              /\ req[r].resp.status \in {403, 200, 500}
        /\ Suspended(r) => (responses = 0 /\ req[r].resp = NoResponse)

C14_Witness ==
    \E r, q \in Requests :
        /\ r # q
        /\ req[r].log = <<"admit", "prompt", "call", "settled", "respond">>
        /\ req[r].resp.status = 200
        /\ req[q].log = <<"reject", "respond">>
        /\ req[q].resp.status = 403
        /\ req[q].calls = 0

\* C15 as stated: a request is admitted only when its client_secret equals a
\* secret that was configured; with no secret configured every request, one
\* that omits client_secret included, is answered 403 and reaches neither the
\* identity helper nor the model.
C15_AdmissionNeedsConfiguredSecret ==
    \A r \in Requests :
        (Arrived(r) /\ (environ.GENAI_CLIENT_SECRET = Undefined \/ ~SecretMatches(r))) =>
            /\ req[r].log = <<"reject", "respond">>
            /\ req[r].resp = Send(403, <<"Forbidden: Invalid client secret">>)
            /\ req[r].calls = 0
            /\ req[r].fetches = 0

\* the response is ok and the helper's read of it does not throw
Readable(c) ==
    /\ c.response.kind = "response"
    /\ c.response.ok
    /\ c.helper = "utils" => c.response.body.t = "object"
\* what the helper's copy takes from an ok response
ResponseData(c) ==
    IF c.helper = "part_001" THEN ReturnBody(c.response.body)
    ELSE ReturnValue(c.response.body.suggestions)

\* C16: fetchPrescriptiveAnalysis never rejects: however the proxy call
\* settles the promise is fulfilled, with the response data when the response
\* is ok and can be read, with null when the response is not ok, when the proxy
\* call throws or when reading the response throws; every invocation issues
\* exactly one POST, through the proxy its service address selects.
C16_HelperResolvesOnce ==
    /\ client.promise.state # "rejected"
    /\ client.pc = "idle" => (client.posts = 0 /\ client.promise = Pending)
    /\ client.pc = "awaitProxy" => (client.posts = 1 /\ client.promise = Pending)
    /\ client.posts >= 1 =>
          /\ client.sent.method = "POST"
          /\ client.sent.url = <<client.restfulService, "/generatePerspectiveAnalytics">>
          /\ client.sent.proxy = "fetchProxy" <=> client.restfulService = LocalService
    /\ client.pc = "settled" =>
          /\ client.posts = 1
          /\ client.promise.state = "fulfilled"
          /\ client.promise =
                IF Readable(client) THEN ResponseData(client) ELSE ReturnValue(Null)

C16_Witness ==
    /\ client.pc = "settled"
    /\ client.helper = "utils"
    /\ client.response = ProxyOutcome("response", TRUE, NoBody)
    /\ client.promise = ReturnValue(Null)
    /\ client.posts = 1
    /\ client.sent.proxy = "serverProxy"

====
